---- MODULE Spec2Model ----
(***************************************************************************)
(* TencentSheetParser (src/main.py): reconstruction of a table from the    *)
(* "canvas replay" action log of an online sheet.                          *)
(*                                                                         *)
(* Python strings that the code takes apart (the action log, its commands, *)
(* the coordinate fields) are sequences of one-character strings; texts of *)
(* the text pool, which the code only copies, are TLA+ strings.            *)
(* Coordinates and the tolerance are floats in the code; the model holds   *)
(* them in tenths (5 is 50, 10.5 is 105), and every input carries at most  *)
(* one fractional digit, 0 or 5, so that each value and each difference is *)
(* exactly representable as a float too.                                   *)
(***************************************************************************)
EXTENDS Integers, Sequences, FiniteSets

VARIABLES
    y_tolerance,      \* self.y_tolerance, in tenths
    df,               \* self.df
    pc,               \* position inside _transform_record_to_dataframe, or "idle"
    texts_pool,       \* record_json['flyweight']['texts']
    actions,          \* record_json['actions']
    extracted_data,   \* local of _transform_record_to_dataframe
    main_data,        \* local of _transform_record_to_dataframe
    sorted_data,      \* local of _transform_record_to_dataframe
    table_rows,       \* table_rows_structured
    result,           \* what _transform_record_to_dataframe returned or raised
    response,         \* what the collaborators gave the last get_dataframe call
    stages,           \* the pipeline stages the last get_dataframe call ran
    returned,         \* what the last get_dataframe call returned or raised
    exported          \* outcome of the last output_to call since then

vars == <<y_tolerance, df, pc, texts_pool, actions, extracted_data, main_data,
          sorted_data, table_rows, result, response, stages, returned, exported>>

----------------------------------------------------------------------------
(* Bounds of the model. *)

MaxCmds == 3

MaxExtracted == 4

MaxFrags == 4

----------------------------------------------------------------------------
(* Python values. *)

\* None as the value of current_style_group: a style is a command that
\* starts with 'g', so never the empty string.
None == <<>>

NoneValue == [kind |-> "None"]

\* pd.DataFrame(rows, columns=headers)
DataFrame(headers, rows) == [kind |-> "DataFrame", headers |-> headers, rows |-> rows]

\* pd.DataFrame()
EmptyDataFrame == DataFrame(<<>>, <<>>)

Raise(exc) == [kind |-> "raise", exc |-> exc]

\* DataFrame.empty: some axis has length 0
empty(frame) == Len(frame.headers) = 0 \/ Len(frame.rows) = 0

\* The y-tolerances a caller constructs the parser with (tenths): -1, 0 and
\* the default 5.
Tolerances == {-10, 0, 50}

----------------------------------------------------------------------------
(* Strings. *)

Digits == {"0", "1", "2", "3", "4", "5", "6", "7", "8", "9"}

DigitValue(c) ==
    CASE c = "0" -> 0 [] c = "1" -> 1 [] c = "2" -> 2 [] c = "3" -> 3
      [] c = "4" -> 4 [] c = "5" -> 5 [] c = "6" -> 6 [] c = "7" -> 7
      [] c = "8" -> 8 [] c = "9" -> 9

\* str.split(sep): the pieces between the separators; always at least one.
RECURSIVE SplitFrom(_, _, _)
SplitFrom(s, sep, piece) ==
    IF s = <<>> THEN <<piece>>
    ELSE IF Head(s) = sep THEN <<piece>> \o SplitFrom(Tail(s), sep, <<>>)
    ELSE SplitFrom(Tail(s), sep, Append(piece, Head(s)))

split(s, sep) == SplitFrom(s, sep, <<>>)

\* cmd.startswith(c) for a one-character c
startswith(cmd, c) == Len(cmd) >= 1 /\ cmd[1] = c

\* int(digits)
RECURSIVE IntFrom(_, _)
IntFrom(digits, acc) ==
    IF digits = <<>> THEN acc
    ELSE IntFrom(Tail(digits), acc * 10 + DigitValue(Head(digits)))

int(digits) == IntFrom(digits, 0)

\* The end of the longest run of characters of class, from position i of s:
\* what a greedy  [class]+  consumes (the run is s[i .. RunEnd - 1]).
RECURSIVE RunEnd(_, _, _)
RunEnd(s, i, class) ==
    IF i <= Len(s) /\ s[i] \in class THEN RunEnd(s, i + 1, class) ELSE i

NoMatch == [matched |-> FALSE]

\* re.compile(r'q\[(\d+),([\d.]+),([\d.]+)]'), matched at offset k of cmd.
\* No character class contains the character that must follow it, so the
\* greedy runs are the only way to match and nothing is backtracked.
MatchAt(cmd, k) ==
    LET a == RunEnd(cmd, k + 2, Digits)
        b == RunEnd(cmd, a + 1, Digits \cup {"."})
        c == RunEnd(cmd, b + 1, Digits \cup {"."})
    IN  IF /\ Len(cmd) >= k + 1
           /\ cmd[k] = "q"
           /\ cmd[k + 1] = "["
           /\ a > k + 2 /\ a <= Len(cmd) /\ cmd[a] = ","
           /\ b > a + 1 /\ b <= Len(cmd) /\ cmd[b] = ","
           /\ c > b + 1 /\ c <= Len(cmd) /\ cmd[c] = "]"
        THEN [matched |-> TRUE,
              group1 |-> SubSeq(cmd, k + 2, a - 1),
              group2 |-> SubSeq(cmd, a + 1, b - 1),
              group3 |-> SubSeq(cmd, b + 1, c - 1)]
        ELSE NoMatch

\* Mutant: pattern.search, which finds the pattern anywhere in the command.
Q_COMMAND_PATTERN_search(cmd) ==
    LET hits == {k \in 1..Len(cmd) : MatchAt(cmd, k).matched}
    IN  IF hits = {} THEN NoMatch
        ELSE MatchAt(cmd, CHOOSE k \in hits : \A j \in hits : k <= j)

\* self._Q_COMMAND_PATTERN.match(cmd): anchored at the start of the command,
\* not at its end.
Q_COMMAND_PATTERN_match(cmd) == MatchAt(cmd, 1)

\* Whether float(field) returns, for a field of digits and dots: Python
\* accepts "5", "5.", ".5" and "5.5", and raises ValueError for a field with
\* no digit or more than one dot.  (A long run of digits gives inf, no error.)
FloatParses(field) ==
    /\ Cardinality({i \in DOMAIN field : field[i] = "."}) <= 1
    /\ \E i \in DOMAIN field : field[i] \in Digits

\* float(field), in tenths, for a field with at most one fractional digit.
float(field) ==
    LET dot == RunEnd(field, 1, Digits)
    IN  int(SubSeq(field, 1, dot - 1)) * 10
          + (IF dot + 1 <= Len(field) THEN DigitValue(field[dot + 1]) ELSE 0)

----------------------------------------------------------------------------
(* _transform_record_to_dataframe, lines 90-111: the scan of the commands. *)

Fragment(text, x, y, style) == [text |-> text, x |-> x, y |-> y, style |-> style]

\* One iteration of  for cmd in commands.  scan is the loop's state:
\* current_style_group, extracted_data and the exception that left the loop.
ScanCommand(scan, cmd, pool) ==
    LET style == IF startswith(cmd, "g") THEN cmd ELSE scan.current_style_group
        q_match == Q_COMMAND_PATTERN_match(cmd)
        styled == [scan EXCEPT !.current_style_group = style]
    IN  IF scan.raised # "none" THEN scan
        ELSE IF ~q_match.matched THEN styled
        ELSE IF ~FloatParses(q_match.group2) \/ ~FloatParses(q_match.group3)
             THEN [styled EXCEPT !.raised = "ValueError"]
        ELSE IF int(q_match.group1) >= Len(pool)
             THEN styled     \* except IndexError: continue
        ELSE [styled EXCEPT !.extracted_data =
                 Append(@, Fragment(pool[int(q_match.group1) + 1],
                                    float(q_match.group2),
                                    float(q_match.group3),
                                    style))]

RECURSIVE ScanFrom(_, _, _)
ScanFrom(scan, commands, pool) ==
    IF commands = <<>> THEN scan
    ELSE ScanFrom(ScanCommand(scan, Head(commands), pool), Tail(commands), pool)

ScanCommands(pool, actions_string) ==
    ScanFrom([current_style_group |-> None, extracted_data |-> <<>>, raised |-> "none"],
             split(actions_string, ";"), pool)

----------------------------------------------------------------------------
(* _filter_out_header_labels *)

\* min(extracted_data, key=lambda item: item['y']): the first of the
\* smallest, as Python's min keeps the element it holds on a tie.
RECURSIVE MinFrom(_, _)
MinFrom(best, rest) ==
    IF rest = <<>> THEN best
    ELSE MinFrom(IF Head(rest).y < best.y THEN Head(rest) ELSE best, Tail(rest))

\* Mutant: the last of the smallest.
RECURSIVE MinLastFrom(_, _)
MinLastFrom(best, rest) ==
    IF rest = <<>> THEN best
    ELSE MinLastFrom(IF Head(rest).y <= best.y THEN Head(rest) ELSE best, Tail(rest))

top_most_last(data) == MinLastFrom(Head(data), Tail(data))

top_most_element(data) == MinFrom(Head(data), Tail(data))

\* [item for item in extracted_data if item['style'] != style_to_exclude]
RECURSIVE Without(_, _)
Without(data, style_to_exclude) ==
    IF data = <<>> THEN <<>>
    ELSE (IF Head(data).style # style_to_exclude THEN <<Head(data)>> ELSE <<>>)
            \o Without(Tail(data), style_to_exclude)

filter_out_header_labels(data) ==
    IF data = <<>> THEN <<>>
    ELSE Without(data, top_most_element(data).style)

----------------------------------------------------------------------------
(* sorted and _group_data_into_rows *)

\* key=lambda item: (item['y'], item['x'])
ByYX(a, b) == a.y < b.y \/ (a.y = b.y /\ a.x <= b.x)

\* key=lambda i: i['x']
ByX(a, b) == a.x <= b.x

NotGreater(a, b, key) == IF key = "yx" THEN ByYX(a, b) ELSE ByX(a, b)

\* Python's sorted is stable: an item goes after every item already placed
\* whose key is not greater.
RECURSIVE InsertInto(_, _, _)
InsertInto(placed, item, key) ==
    IF placed = <<>> THEN <<item>>
    ELSE IF NotGreater(Head(placed), item, key)
         THEN <<Head(placed)>> \o InsertInto(Tail(placed), item, key)
         ELSE <<item>> \o placed

RECURSIVE SortInto(_, _, _)
SortInto(placed, rest, key) ==
    IF rest = <<>> THEN placed
    ELSE SortInto(InsertInto(placed, Head(rest), key), Tail(rest), key)

sorted_by_yx(data) == SortInto(<<>>, data, "yx")

\* Mutant: a row is closed as it stands, without the sort by x.
unsorted_row(row) == row

sorted_by_x(row) == SortInto(<<>>, row, "x")

abs(v) == IF v < 0 THEN -v ELSE v

\* Mutant: the tolerance is measured against the row's first y.
AnchoredItem(group, item, tolerance) ==
    IF abs(item.y - group.last_y) > tolerance
    THEN [table_rows |-> Append(group.table_rows, sorted_by_x(group.current_row)),
          current_row |-> <<item>>,
          last_y |-> item.y]
    ELSE [group EXCEPT !.current_row = Append(@, item)]

\* One iteration of  for item in sorted_data[1:].
GroupItem(group, item, tolerance) ==
    IF abs(item.y - group.last_y) > tolerance
    THEN [table_rows |-> Append(group.table_rows, sorted_by_x(group.current_row)),
          current_row |-> <<item>>,
          last_y |-> item.y]
    ELSE [table_rows |-> group.table_rows,
          current_row |-> Append(group.current_row, item),
          last_y |-> item.y]

RECURSIVE GroupFrom(_, _, _)
GroupFrom(group, rest, tolerance) ==
    IF rest = <<>> THEN group
    ELSE GroupFrom(GroupItem(group, Head(rest), tolerance), Tail(rest), tolerance)

group_data_into_rows(data, tolerance) ==
    IF data = <<>> THEN <<>>
    ELSE LET group == GroupFrom([table_rows |-> <<>>,
                                 current_row |-> <<Head(data)>>,
                                 last_y |-> Head(data).y],
                                Tail(data), tolerance)
         IN  Append(group.table_rows, sorted_by_x(group.current_row))

----------------------------------------------------------------------------
(* _transform_record_to_dataframe, lines 123-137: the table. *)

Texts(row) == [i \in 1..Len(row) |-> row[i].text]

Blanks(n) == [i \in 1..n |-> ""]

\* Mutant: a short row is padded, a long row is kept whole.
padded_only(row, max_cols) ==
    IF Len(row) < max_cols THEN row \o Blanks(max_cols - Len(row)) ELSE row

\* row + [''] * (max_cols - len(row)) if len(row) < max_cols else row[:max_cols]
padded(row, max_cols) ==
    IF Len(row) < max_cols THEN row \o Blanks(max_cols - Len(row))
    ELSE SubSeq(row, 1, max_cols)

materialize(rows) ==
    LET text_rows == [i \in 1..Len(rows) |-> Texts(rows[i])]
    IN  IF text_rows = <<>> \/ text_rows[1] = <<>> THEN EmptyDataFrame
        ELSE DataFrame(text_rows[1],
                       [i \in 1..(Len(text_rows) - 1) |->
                           padded(text_rows[i + 1], Len(text_rows[1]))])

\* _transform_record_to_dataframe for a record that has both keys.
transform_record_to_dataframe(pool, actions_string, tolerance) ==
    LET scan == ScanCommands(pool, actions_string)
    IN  IF scan.raised # "none" THEN Raise(scan.raised)
        ELSE IF scan.extracted_data = <<>> THEN EmptyDataFrame
        ELSE materialize(group_data_into_rows(
                 sorted_by_yx(filter_out_header_labels(scan.extracted_data)),
                 tolerance))

----------------------------------------------------------------------------
(* Inputs. *)

\* All sequences over S of length lo..hi.
SeqsOf(S, lo, hi) == UNION {[1..n -> S] : n \in lo..hi}

\* ";".join(commands): the action log whose commands these are.
RECURSIVE join(_)
join(commands) ==
    IF commands = <<>> THEN <<>>
    ELSE IF Len(commands) = 1 THEN commands[1]
    ELSE commands[1] \o <<";">> \o join(Tail(commands))

G1 == <<"g", "1">>

G2 == <<"g", "2">>

\* The text of a placement command: q[index,x,y]
Q(index, x, y) == <<"q", "[">> \o index \o <<",">> \o x \o <<",">> \o y \o <<"]">>

\* The commands the action logs are made of: style groups, placements
\* (index 7 is outside every pool; "." and "1.2.3" match [\d.]+ and are no
\* floats), a placement followed by other text, and commands that are no
\* placement: the placement syntax after another letter, a placement with
\* two fields, and the empty command.
Commands ==
    { G1, G2,
      Q(<<"0">>, <<"0">>, <<"0">>),
      Q(<<"1">>, <<"2", "0">>, <<"1", "0", ".", "5">>),
      Q(<<"7">>, <<"0">>, <<"5">>),
      Q(<<"0">>, <<".">>, <<"5">>),
      Q(<<"7">>, <<"0">>, <<"1", ".", "2", ".", "3">>),
      Q(<<"1">>, <<"5">>, <<"5">>) \o <<"x">>,
      <<"d">> \o Q(<<"0">>, <<"0">>, <<"0">>),
      <<"q", "[", "1", ",", "2", "]">>,
      <<>> }

ActionLogs == {join(commands) : commands \in SeqsOf(Commands, 0, MaxCmds)}

TextPools == {<<"A">>, <<"A", "B">>}

\* The text of the i-th fragment of a drawn fragment list: the pool's texts
\* in turn, so that two fragments of a list can be equal.
TextOf(i) == IF i % 2 = 1 THEN "A" ELSE "B"

\* The fragments at these places, with the pool's texts.
WithTexts(places) ==
    [i \in 1..Len(places) |->
        Fragment(TextOf(i), places[i].x, places[i].y, places[i].style)]

\* What the scan can leave in extracted_data: the style is None only before
\* the first style group of the log.
ExtractedLists ==
    { WithTexts(places) :
        places \in { p \in SeqsOf([x : {0}, y : {0, 50}, style : {None, G1, G2}],
                                  1, MaxExtracted) :
                        \A i \in DOMAIN p : \A j \in DOMAIN p :
                            (i < j /\ p[j].style = None) => p[i].style = None } }

\* What the filter can leave in main_data (here all of one style).
MainLists ==
    { WithTexts(places) :
        places \in SeqsOf([x : {0, 200}, y : {0, 50, 100, 160}, style : {G2}],
                          0, MaxFrags) }

----------------------------------------------------------------------------
(* The steps of _transform_record_to_dataframe. *)

\* The parser is constructed and no call of get_dataframe or output_to has
\* been made (__init__: self.df = None).
Constructed ==
    /\ y_tolerance \in Tolerances
    /\ df = NoneValue
    /\ response = NoneValue
    /\ stages = <<>>
    /\ returned = NoneValue
    /\ exported = NoneValue

parser == <<y_tolerance, df, response, stages, returned, exported>>

\* Lines 83-115: the commands are scanned; a ValueError of float() leaves
\* the function, and no fragment ends it with an empty table.
Scan ==
    /\ pc = "scan"
    /\ LET scan == ScanCommands(texts_pool, actions)
       IN  /\ extracted_data' = scan.extracted_data
           /\ IF scan.raised # "none"
              THEN pc' = "raised" /\ result' = Raise(scan.raised)
              ELSE IF scan.extracted_data = <<>>
              THEN pc' = "done" /\ result' = EmptyDataFrame
              ELSE pc' = "filter" /\ result' = result
    /\ UNCHANGED <<parser, texts_pool, actions, main_data, sorted_data, table_rows>>

\* Line 118
Filter ==
    /\ pc = "filter"
    /\ main_data' = filter_out_header_labels(extracted_data)
    /\ pc' = "sort"
    /\ UNCHANGED <<parser, texts_pool, actions, extracted_data, sorted_data,
                   table_rows, result>>

\* Line 119
Sort ==
    /\ pc = "sort"
    /\ sorted_data' = sorted_by_yx(main_data)
    /\ pc' = "group"
    /\ UNCHANGED <<parser, texts_pool, actions, extracted_data, main_data,
                   table_rows, result>>

\* Line 122
Group ==
    /\ pc = "group"
    /\ table_rows' = group_data_into_rows(sorted_data, y_tolerance)
    /\ pc' = "materialize"
    /\ UNCHANGED <<parser, texts_pool, actions, extracted_data, main_data,
                   sorted_data, result>>

\* Lines 123-137
Materialize ==
    /\ pc = "materialize"
    /\ result' = materialize(table_rows)
    /\ pc' = "done"
    /\ UNCHANGED <<parser, texts_pool, actions, extracted_data, main_data,
                   sorted_data, table_rows>>

\* _transform_record_to_dataframe on a record with a text pool and an
\* action log.
InitTransform ==
    /\ Constructed
    /\ pc = "scan"
    /\ texts_pool \in TextPools
    /\ actions \in ActionLogs
    /\ extracted_data = <<>>
    /\ main_data = <<>>
    /\ sorted_data = <<>>
    /\ table_rows = <<>>
    /\ result = NoneValue

NextTransform == Scan \/ Filter \/ Sort \/ Group \/ Materialize

SpecTransform == InitTransform /\ [][NextTransform]_vars

\* _filter_out_header_labels on a fragment list.
InitFilter ==
    /\ Constructed
    /\ pc = "filter"
    /\ texts_pool = <<"A", "B">>
    /\ actions = <<>>
    /\ extracted_data \in ExtractedLists
    /\ main_data = <<>>
    /\ sorted_data = <<>>
    /\ table_rows = <<>>
    /\ result = NoneValue

NextFilter == Filter

SpecFilter == InitFilter /\ [][NextFilter]_vars

\* The row reconstruction and the table, on a filtered fragment list.
InitRows ==
    /\ Constructed
    /\ pc = "sort"
    /\ texts_pool = <<"A", "B">>
    /\ actions = <<>>
    /\ extracted_data = <<>>
    /\ main_data \in MainLists
    /\ sorted_data = <<>>
    /\ table_rows = <<>>
    /\ result = NoneValue

NextRows == Sort \/ Group \/ Materialize

SpecRows == InitRows /\ [][NextRows]_vars

----------------------------------------------------------------------------
(* get_dataframe and output_to.  The fetch, the search of the page for the *)
(* payload and the decoding belong to requests, re and demjson3: a         *)
(* response names what each of them gives.                                 *)

Response(fetch, html, payload, texts, actions_string) ==
    [fetch |-> fetch, html |-> html, payload |-> payload,
     texts |-> texts, actions |-> actions_string]

\* The record of the sheet  g1;q[0,0,0];g2;q[1,0,10];q[2,20,10]  and three
\* more: with a row below the headers, with a coordinate that is no float,
\* and without a placement.
SampleLogs ==
    { join(<<G1, Q(<<"0">>, <<"0">>, <<"0">>), G2, Q(<<"1">>, <<"0">>, <<"1", "0">>),
             Q(<<"2">>, <<"2", "0">>, <<"1", "0">>)>>),
      join(<<G1, Q(<<"0">>, <<"0">>, <<"0">>), G2, Q(<<"1">>, <<"0">>, <<"1", "0">>),
             Q(<<"2">>, <<"2", "0">>, <<"1", "0">>), Q(<<"3">>, <<"0">>, <<"2", "0">>)>>),
      join(<<G1, Q(<<"0">>, <<"1", ".", "2", ".", "3">>, <<"0">>)>>),
      join(<<G1, <<"f", "[", "3", "]">>>>) }

Responses ==
    { Response("RequestException", "", "", <<>>, <<>>),
      Response("ok", "empty", "", <<>>, <<>>),
      Response("ok", "no_record", "", <<>>, <<>>),
      Response("ok", "record", "empty", <<>>, <<>>),
      Response("ok", "record", "undecodable", <<>>, <<>>),
      Response("ok", "record", "empty_object", <<>>, <<>>),
      Response("ok", "record", "no_actions", <<>>, <<>>) }
    \cup { Response("ok", "record", "record", <<"A", "B", "C", "D">>, log) :
              log \in SampleLogs }

\* A str or dict: only its emptiness and what it was made from matter.
Value(kind, is_empty, of) == [kind |-> kind, empty |-> is_empty, of |-> of]

\* not v
not(v) == v.kind = "None" \/ (v.kind # "None" /\ v.empty)

\* _fetch_page_content: response.text, or None on a RequestException.
fetch_page_content(resp) ==
    IF resp.fetch = "ok" THEN Value("str", resp.html = "empty", resp) ELSE NoneValue

\* _extract_record_json_string: match.group(1), or None without a match.
extract_record_json_string(html_content) ==
    IF html_content.of.html = "record"
    THEN Value("str", html_content.of.payload = "empty", html_content.of)
    ELSE NoneValue

\* _decode_to_dict: the decoded value, or None when decode raises.
decode_to_dict(json_string) ==
    IF json_string.of.payload = "undecodable" THEN NoneValue
    ELSE Value("dict", json_string.of.payload = "empty_object", json_string.of)

\* _transform_record_to_dataframe(record_json): a KeyError gives an empty
\* table; None is not subscriptable.
transform(record_json, tolerance) ==
    IF record_json.kind = "None" THEN Raise("TypeError")
    ELSE IF record_json.of.payload # "record" THEN EmptyDataFrame
    ELSE transform_record_to_dataframe(record_json.of.texts, record_json.of.actions,
                                       tolerance)

Call(value, self_df, ran) == [returned |-> value, df |-> self_df, stages |-> ran]

\* self.df = self._transform_record_to_dataframe(record_data); return self.df
\* An exception of the transform leaves get_dataframe before the assignment.
Transformed(self_df, record_data, tolerance) ==
    LET frame == transform(record_data, tolerance)
        ran == <<"fetch", "extract", "decode", "transform">>
    IN  IF frame.kind = "raise" THEN Call(frame, self_df, ran)
        ELSE Call(frame, frame, ran)

\* Mutant: get_dataframe without  if not record_data: return pd.DataFrame()
get_dataframe_unchecked(self_df, tolerance, resp) ==
    LET html_content == fetch_page_content(resp)
        json_string == extract_record_json_string(html_content)
        record_data == decode_to_dict(json_string)
    IN  IF not(html_content) THEN Call(EmptyDataFrame, self_df, <<"fetch">>)
        ELSE IF not(json_string)
             THEN Call(EmptyDataFrame, self_df, <<"fetch", "extract">>)
        ELSE Transformed(self_df, record_data, tolerance)

\* get_dataframe: what it returns, self.df afterwards, and the stages run.
get_dataframe(self_df, tolerance, resp) ==
    LET html_content == fetch_page_content(resp)
        json_string == extract_record_json_string(html_content)
        record_data == decode_to_dict(json_string)
    IN  IF not(html_content) THEN Call(EmptyDataFrame, self_df, <<"fetch">>)
        ELSE IF not(json_string)
             THEN Call(EmptyDataFrame, self_df, <<"fetch", "extract">>)
        ELSE IF not(record_data)
             THEN Call(EmptyDataFrame, self_df, <<"fetch", "extract", "decode">>)
        ELSE Transformed(self_df, record_data, tolerance)

Formats == {"csv", "excel", "json"}

Output(outcome, written) == [kind |-> "output_to", outcome |-> outcome, written |-> written]

\* output_to(file_path, output_format): self.df.empty is read first, and
\* None has no attribute empty.
output_to(self_df, output_format) ==
    IF self_df.kind = "None" THEN Output("AttributeError", NoneValue)
    ELSE IF empty(self_df) THEN Output("False", NoneValue)
    ELSE IF output_format \in {"csv", "excel"}
         THEN Output("True", [format |-> output_format, frame |-> self_df])
    ELSE Output("False", NoneValue)

locals == <<pc, texts_pool, actions, extracted_data, main_data, sorted_data,
            table_rows, result>>

GetDataframe ==
    \E resp \in Responses :
        LET call == get_dataframe(df, y_tolerance, resp)
        IN  /\ df' = call.df
            /\ response' = resp
            /\ stages' = call.stages
            /\ returned' = call.returned
            /\ exported' = NoneValue
            /\ UNCHANGED <<y_tolerance, locals>>

OutputTo ==
    \E output_format \in Formats :
        /\ exported' = output_to(df, output_format)
        /\ UNCHANGED <<y_tolerance, df, response, stages, returned, locals>>

\* __init__ (the url is one of docs.qq.com/sheet, or no parser exists):
\* any y_tolerance is taken as it is.
Init ==
    /\ Constructed
    /\ pc = "idle"
    /\ texts_pool = <<>>
    /\ actions = <<>>
    /\ extracted_data = <<>>
    /\ main_data = <<>>
    /\ sorted_data = <<>>
    /\ table_rows = <<>>
    /\ result = NoneValue

Next == GetDataframe \/ OutputTo

Spec == Init /\ [][Next]_vars

----------------------------------------------------------------------------
(* The claims.  What a claim says of the code's result is stated here on   *)
(* its own terms, not with the operators that compute the result.          *)

\* A command is a placement when it begins  q[ digits , field , field ]
\* with non-empty fields of digits and dots.
IsPlacement(cmd) ==
    \E a \in 1..Len(cmd) : \E b \in 1..Len(cmd) : \E c \in 1..Len(cmd) :
        /\ 3 < a /\ a + 1 < b /\ b + 1 < c
        /\ cmd[1] = "q" /\ cmd[2] = "[" /\ cmd[a] = "," /\ cmd[b] = "," /\ cmd[c] = "]"
        /\ \A i \in 3..(a - 1) : cmd[i] \in Digits
        /\ \A i \in (a + 1)..(b - 1) : cmd[i] \in Digits \cup {"."}
        /\ \A i \in (b + 1)..(c - 1) : cmd[i] \in Digits \cup {"."}

CommandsOf(log) == split(log, ";")

\* The placement's three fields.
Fields(cmd) == MatchAt(cmd, 1)

CoordinatesParse(cmd) ==
    FloatParses(Fields(cmd).group2) /\ FloatParses(Fields(cmd).group3)

IndexInPool(cmd, pool) == int(Fields(cmd).group1) < Len(pool)

\* The most recent style-group command before command i, None without one.
StyleBefore(cmds, i) ==
    LET groups == {j \in 1..(i - 1) : startswith(cmds[j], "g")}
    IN  IF groups = {} THEN None
        ELSE cmds[CHOOSE j \in groups : \A k \in groups : k <= j]

\* The fragments of commands i.. of the log: one for each placement with its
\* index in the pool and coordinates that are floats.
RECURSIVE ExpectedFrom(_, _, _)
ExpectedFrom(cmds, i, pool) ==
    IF i > Len(cmds) THEN <<>>
    ELSE (IF IsPlacement(cmds[i]) /\ CoordinatesParse(cmds[i]) /\ IndexInPool(cmds[i], pool)
          THEN <<Fragment(pool[int(Fields(cmds[i]).group1) + 1],
                          float(Fields(cmds[i]).group2),
                          float(Fields(cmds[i]).group3),
                          StyleBefore(cmds, i))>>
          ELSE <<>>) \o ExpectedFrom(cmds, i + 1, pool)

ExpectedFragments(pool, log) == ExpectedFrom(CommandsOf(log), 1, pool)

Scanned == pc # "scan"

Grouped == pc \in {"materialize", "done"}

Count(data, f) == Cardinality({i \in DOMAIN data : data[i] = f})

SamePieces(data, other) ==
    \A i \in DOMAIN data \cup DOMAIN other :
        LET f == IF i \in DOMAIN data THEN data[i] ELSE other[i]
        IN  Count(data, f) = Count(other, f)

RECURSIVE Flattened(_)
Flattened(rows) == IF rows = <<>> THEN <<>> ELSE Head(rows) \o Flattened(Tail(rows))

RECURSIVE Total(_, _)
Total(rows, k) == IF k = 0 THEN 0 ELSE Len(rows[k]) + Total(rows, k - 1)

\* The row that holds the i-th fragment of the sorted sequence.
RowOf(rows, i) == CHOOSE k \in 1..Len(rows) : Total(rows, k - 1) < i /\ i <= Total(rows, k)

MinY(row) == CHOOSE y \in {row[i].y : i \in DOMAIN row} : \A i \in DOMAIN row : y <= row[i].y

MaxY(row) == CHOOSE y \in {row[i].y : i \in DOMAIN row} : \A i \in DOMAIN row : y >= row[i].y

\* C1: when the table has headers, every data row has exactly len(headers)
\* cells, and data row i holds the texts of reconstructed row i + 1 in their
\* order, cut to len(headers) cells or filled up with empty strings.
C1_RowsHaveHeaderWidth ==
    (pc = "done" /\ result.headers # <<>>) =>
        /\ Len(result.rows) = Len(table_rows) - 1
        /\ \A i \in 1..Len(result.rows) :
              /\ Len(result.rows[i]) = Len(result.headers)
              /\ \A j \in 1..Len(result.headers) :
                    result.rows[i][j] = IF j <= Len(table_rows[i + 1])
                                        THEN table_rows[i + 1][j].text ELSE ""

\* A table with a row that was filled up.
C1_Witness ==
    /\ pc = "done" /\ result.headers # <<>>
    /\ \E i \in 1..Len(result.rows) :
          /\ Len(table_rows[i + 1]) < Len(result.headers)
          /\ result.rows[i][Len(result.headers)] = ""

\* C2: a placement whose x or y is no float is dropped: no exception leaves
\* _transform_record_to_dataframe and the other placements yield their
\* fragments.
C2_UnparsableCoordinateDropped ==
    (Scanned /\ \E i \in DOMAIN CommandsOf(actions) :
                   IsPlacement(CommandsOf(actions)[i]) /\ ~CoordinatesParse(CommandsOf(actions)[i]))
    => (pc # "raised" /\ extracted_data = ExpectedFragments(texts_pool, actions))

\* C3: no table is reconstructed by a parser whose y_tolerance is negative.
C3_NegativeToleranceRejected ==
    ~(/\ y_tolerance < 0
      /\ returned.kind = "DataFrame"
      /\ stages = <<"fetch", "extract", "decode", "transform">>
      /\ returned.headers # <<>>)

\* The first fragment, in input order, of those with the smallest y.
TopMost(data) ==
    data[CHOOSE i \in DOMAIN data :
            /\ \A j \in DOMAIN data : data[i].y <= data[j].y
            /\ \A j \in 1..(i - 1) : data[j].y > data[i].y]

\* C4: the filter returns, in input order, the fragments whose style differs
\* from the style of the first minimum-y fragment; a fragment without style
\* is removed exactly when that fragment has none; that fragment is removed.
C4_FilterExcludesTopStyle ==
    (pc = "sort" /\ extracted_data # <<>>) =>
        LET top == TopMost(extracted_data)
            Kept(f) == f.style # top.style
        IN  /\ main_data = SelectSeq(extracted_data, Kept)
            /\ \A i \in DOMAIN extracted_data :
                  extracted_data[i].style = None =>
                     ((\A k \in DOMAIN main_data : main_data[k] # extracted_data[i])
                        <=> top.style = None)
            /\ \A k \in DOMAIN main_data : main_data[k] # top

\* Two fragments of different styles share the smallest y, and the second of
\* them is kept.
C4_Witness ==
    /\ pc = "sort"
    /\ \E i \in DOMAIN extracted_data : \E j \in DOMAIN extracted_data :
          /\ i < j
          /\ extracted_data[i].y = extracted_data[j].y
          /\ \A k \in DOMAIN extracted_data : extracted_data[i].y <= extracted_data[k].y
          /\ extracted_data[i].style # extracted_data[j].style
          /\ \E k \in DOMAIN main_data : main_data[k] = extracted_data[j]

\* C5: for a tolerance that is not negative, each row is a run of the sorted
\* sequence, and two consecutive fragments of the sequence are in one row
\* exactly when their y values differ by at most y_tolerance.
C5_RowBreaksAtTolerance ==
    (Grouped /\ y_tolerance >= 0) =>
        /\ Total(table_rows, Len(table_rows)) = Len(sorted_data)
        /\ \A k \in DOMAIN table_rows :
              SamePieces(table_rows[k],
                         SubSeq(sorted_data, Total(table_rows, k - 1) + 1,
                                Total(table_rows, k)))
        /\ \A i \in 1..(Len(sorted_data) - 1) :
              (RowOf(table_rows, i) = RowOf(table_rows, i + 1))
                 <=> abs(sorted_data[i + 1].y - sorted_data[i].y) <= y_tolerance

\* A row that spans more than the tolerance, and two consecutive fragments
\* exactly y_tolerance apart.
C5_Witness ==
    /\ Grouped /\ y_tolerance > 0
    /\ \E k \in DOMAIN table_rows : MaxY(table_rows[k]) - MinY(table_rows[k]) > y_tolerance
    /\ \E i \in 1..(Len(sorted_data) - 1) :
          sorted_data[i + 1].y - sorted_data[i].y = y_tolerance

\* C6: no row is empty, each row is in non-decreasing x, the rows are in
\* non-decreasing minimum y, and the rows hold each filtered fragment once.
C6_RowsOrderedAndComplete ==
    Grouped =>
        /\ \A k \in DOMAIN table_rows : table_rows[k] # <<>>
        /\ \A k \in DOMAIN table_rows : \A i \in 1..(Len(table_rows[k]) - 1) :
              table_rows[k][i].x <= table_rows[k][i + 1].x
        /\ \A k \in 1..(Len(table_rows) - 1) :
              MinY(table_rows[k]) <= MinY(table_rows[k + 1])
        /\ SamePieces(Flattened(table_rows), main_data)

\* Two rows, the first with a fragment of larger y and smaller x than
\* another of its fragments.
C6_Witness ==
    /\ Grouped /\ Len(table_rows) >= 2
    /\ \E i \in DOMAIN table_rows[1] : \E j \in DOMAIN table_rows[1] :
          /\ i < j
          /\ table_rows[1][i].x < table_rows[1][j].x
          /\ table_rows[1][i].y > table_rows[1][j].y

\* C7: a placement whose index is outside the pool yields no fragment and
\* the scan goes on: extracted_data is, in log order, the fragments of the
\* placements whose index is in the pool, each with the style group before it.
C7_OutOfRangeIndexSkipped ==
    (Scanned /\ \E i \in DOMAIN CommandsOf(actions) :
                   IsPlacement(CommandsOf(actions)[i])
                      /\ ~IndexInPool(CommandsOf(actions)[i], texts_pool))
    => (pc # "raised" /\ extracted_data = ExpectedFragments(texts_pool, actions))

\* C8: an action log without a placement gives an empty table, and nothing
\* is raised.
C8_NoPlacementGivesEmptyTable ==
    (Scanned /\ \A i \in DOMAIN CommandsOf(actions) : ~IsPlacement(CommandsOf(actions)[i]))
    => (pc = "done" /\ result = EmptyDataFrame)

\* A log of a style group and of commands that are no placement.
C8_Witness ==
    /\ pc = "done" /\ result = EmptyDataFrame
    /\ Len(CommandsOf(actions)) = MaxCmds
    /\ \A i \in DOMAIN CommandsOf(actions) : ~IsPlacement(CommandsOf(actions)[i])
    /\ \E i \in DOMAIN CommandsOf(actions) : startswith(CommandsOf(actions)[i], "g")
    /\ \E i \in DOMAIN CommandsOf(actions) : startswith(CommandsOf(actions)[i], "d")

\* The stages get_dataframe runs when a collaborator fails: up to the one
\* that failed.
FailedAt(resp) ==
    IF resp.fetch = "RequestException" THEN <<"fetch">>
    ELSE IF resp.html = "no_record" THEN <<"fetch", "extract">>
    ELSE IF resp.html = "record" /\ resp.payload = "undecodable"
         THEN <<"fetch", "extract", "decode">>
    ELSE <<>>

\* C9: when the fetch fails, the page holds no payload or the payload does
\* not decode, get_dataframe returns an empty table, raises nothing and runs
\* no later stage.
C9_CollaboratorFailureGivesEmptyTable ==
    (response # NoneValue /\ FailedAt(response) # <<>>) =>
        (returned = EmptyDataFrame /\ stages = FailedAt(response))

\* The payload did not decode, after a call that had built a table.
C9_Witness ==
    /\ response # NoneValue
    /\ FailedAt(response) = <<"fetch", "extract", "decode">>
    /\ returned = EmptyDataFrame
    /\ df.kind = "DataFrame" /\ ~empty(df)

\* C10: output_to acts on the table the most recent get_dataframe returned:
\* after an empty one it returns False, writes nothing and raises nothing,
\* and what it writes is that table.
C10_OutputActsOnLatestTable ==
    (exported.kind = "output_to" /\ returned.kind = "DataFrame") =>
        /\ empty(returned) => (exported.outcome = "False" /\ exported.written = NoneValue)
        /\ exported.written # NoneValue => exported.written.frame = returned

====
